---- MODULE Spec2Model ----
(***************************************************************************)
(* A model of orion's EvolutionES scheduler (orion/algo/evolution_es.py)   *)
(* and of its dimension transformers (orion/core/worker/transformer.py).   *)
(*                                                                         *)
(* Python lists and numpy arrays that the code indexes from 0 are          *)
(* functions over 0..n-1 here; lists that grow (results of a rung, points, *)
(* hurdles) are sequences, read at [i + 1].                                *)
(*                                                                         *)
(* Floats are fixed-point numbers: the integer k stands for k / Scale.     *)
(* Objective values are floats too; +infinity and NaN are the two special  *)
(* values PosInf and NaN, compared and added as IEEE-754 does.             *)
(***************************************************************************)
EXTENDS Integers, Sequences, FiniteSets, TLC

(***************************************************************************)
(* Bounds of the model.                                                    *)
(***************************************************************************)
\* population sizes 1..MaxPopulation
MaxPopulation == 4
\* results one rung may hold
MaxResults == 3
\* get_candidates calls in one run
MaxCalls == 1
\* the retry counter nums_all_equal is followed up to this value
MaxEqual == 12
\* a float k / Scale
Scale == 2
\* compute_budgets: max_resources and min_resources up to MaxResources
MaxResources == 30
\* compute_budgets: reduction_factor up to MaxReduction
MaxReduction == 5
\* a categorical dimension has up to MaxCategories categories, named 1..MaxCategories
MaxCategories == 3
\* build_required_space: up to MaxRequirements requirements
MaxRequirements == 3
\* reals and integers of a dimension lie in -MaxValue..MaxValue
MaxValue == 2
\* a point is transformed and reversed in turn, MaxImages times in all
MaxImages == 3
\* a random generator is in one of GeneratorStates states, 0..GeneratorStates - 1
GeneratorStates == 8
\* the seeds are 0..MaxSeed
MaxSeed == 1

(***************************************************************************)
(* Floats of the objective.                                                *)
(***************************************************************************)
\* np.inf, the initial performance
PosInf == 999
\* a NaN objective reported for a trial
NaN == -999

\* Python's a < b on floats: false when either side is NaN
FloatLess(a, b) == a # NaN /\ b # NaN /\ a < b

\* Python's a >= b on floats: false when either side is NaN
FloatGeq(a, b) == a # NaN /\ b # NaN /\ a >= b

\* float addition
FloatAdd(a, b) ==
    IF a = NaN \/ b = NaN THEN NaN
    ELSE IF a = PosInf \/ b = PosInf THEN PosInf
    ELSE a + b

\* int(x) of a float k / Scale: truncation toward zero, as a float again
IntCast(k) == IF k >= 0 THEN (k \div Scale) * Scale ELSE -(((-k) \div Scale) * Scale)

(***************************************************************************)
(* The space: the types of its dimensions, in order (indices 0, 1, 2).     *)
(***************************************************************************)
Space == <<"real", "fidelity", "integer">>

DimType(j) == Space[j + 1]

\* Hyperband.fidelity_index: the index of the fidelity dimension
fidelity_index == CHOOSE j \in 0..(Len(Space) - 1) : DimType(j) = "fidelity"

\* BracketEVES.search_space_remove_fidelity
search_space_remove_fidelity == {j \in 0..(Len(Space) - 1) : j # fidelity_index}

(***************************************************************************)
(* compute_budgets                                                         *)
(***************************************************************************)
\* the largest k with b^k <= n, for n >= 1 and b >= 2
RECURSIVE ILog(_, _)
ILog(n, b) == IF n < b THEN 0 ELSE 1 + ILog(n \div b, b)

\* int(np.log(max_resources) / np.log(reduction_factor)), for max_resources >= 1.
\* The float quotient agrees with the exact logarithm's floor for every
\* max_resources <= 100 and reduction_factor <= 9 (it first falls below it at
\* max_resources = 243, reduction_factor = 3).
NumBrackets(max_resources, reduction_factor) == ILog(max_resources, reduction_factor)

\* The inputs <<max_resources, reduction_factor, i>>, max_resources <= 100 and
\* reduction_factor <= 9, for which the IEEE-754 double product
\* (max_resources / reduction_factor ** num_brackets) * reduction_factor ** i
\* falls just below the exact integer it stands for, so that int() yields one less:
\* (29 / 25) * 25 = 28.999999999999996.
FloatProductBelow ==
    { <<61, 3, 3>>, <<29, 5, 2>>, <<57, 5, 2>>, <<58, 5, 2>>,
      <<54, 7, 2>>, <<55, 7, 2>>, <<64, 7, 2>>, <<99, 7, 2>> }

\* min_i = int(min_resources * reduction_factor ** i) of bracket 0, where
\* min_resources = max_resources / reduction_factor ** num_brackets is a float
ResourceLevel(max_resources, reduction_factor, num_brackets, i) ==
    ((max_resources * reduction_factor ^ i) \div (reduction_factor ^ num_brackets))
    - (IF <<max_resources, reduction_factor, i>> \in FloatProductBelow THEN 1 ELSE 0)

\* budgets[0]: the (n_i, min_i) of bracket_id = 0, the only line lines 67-71 read;
\* num_trials = reduction_factor ** num_brackets for bracket 0
BracketZeroBudgets(max_resources, reduction_factor) ==
    LET num_brackets == NumBrackets(max_resources, reduction_factor)
    IN  [k \in 1..(num_brackets + 1) |->
            << reduction_factor ^ (num_brackets - (k - 1)),
               ResourceLevel(max_resources, reduction_factor, num_brackets, k - 1) >>]

\* compute_budgets raises: np.log(0) is -inf and int(-inf) an OverflowError
ComputeBudgetsRaises(min_resources, max_resources, reduction_factor) ==
    reduction_factor # 1 /\ max_resources < 1

\* compute_budgets with range(min_resources, max_resources) at line 40
compute_budgets_short(min_resources, max_resources, reduction_factor, nums_pop, pairs) ==
    IF reduction_factor = 1
    THEN IF min_resources >= max_resources
         THEN << >>
         ELSE << [k \in 1..(max_resources - min_resources) |->
                    IF k = 1 THEN <<nums_pop, min_resources>>
                    ELSE <<pairs * 2, min_resources + (k - 1)>>] >>
    ELSE LET budgets0 == BracketZeroBudgets(max_resources, reduction_factor)
         IN  << [k \in 1..Len(budgets0) |->
                    IF k = 1 THEN <<nums_pop, budgets0[k][2]>>
                    ELSE <<pairs * 2, budgets0[k][2]>>] >>

\* the list budgets_eves that compute_budgets returns: a list of lines, each a
\* list of <<count, resource level>>
compute_budgets(min_resources, max_resources, reduction_factor, nums_pop, pairs) ==
    IF reduction_factor = 1
    THEN IF min_resources > max_resources
         THEN << >>
         ELSE << [k \in 1..(max_resources - min_resources + 1) |->
                    IF k = 1 THEN <<nums_pop, min_resources>>
                    ELSE <<pairs * 2, min_resources + (k - 1)>>] >>
    ELSE LET budgets0 == BracketZeroBudgets(max_resources, reduction_factor)
         IN  << [k \in 1..Len(budgets0) |->
                    IF k = 1 THEN <<nums_pop, budgets0[k][2]>>
                    ELSE <<pairs * 2, budgets0[k][2]>>] >>

(***************************************************************************)
(* The scheduler (EvolutionES) and its single active bracket (BracketEVES) *)
(***************************************************************************)
VARIABLES
    nums_population,  \* EvolutionES.nums_population
    budgets,          \* EvolutionES.budgets[0], the line of brackets[0]
    rungs,            \* Bracket.rungs: per rung, n_trials and the results in insertion order
    population,       \* EvolutionES.population: dimension index -> array of nums_population floats
    performance,      \* EvolutionES.performance: array of nums_population floats
    hurdles,          \* EvolutionES.hurdles: one <<sum of the winners' objectives, number of pairs>> per round
    pc,               \* where the running get_candidates call stands
    rung_id,          \* its argument
    population_range, \* its locals
    red_team,
    blue_team,
    winner_list,
    loser_list,
    hurdles_acc,      \* the local `hurdles`, summed before the division
    idx,              \* the loop variable i
    points,
    nums_all_equal,
    warnings,         \* logger.warning calls of this get_candidates call
    returned,         \* the list the last call returned
    calls             \* get_candidates calls so far

(***************************************************************************)
(* The other components are pure functions; each has the variables of one  *)
(* application: the arguments, the position and the results.               *)
(***************************************************************************)
VARIABLES
    budget_args,      \* compute_budgets: its arguments
    budget_pc,        \* "call", "returned" or "raised"
    budgets_eves      \* the list it returns

VARIABLES
    dimension,        \* build_required_space: a dimension of original_space, [type, categories]
    requirements,     \* its requirements
    space_pc,         \* "build", "built", "raised" (TypeError), "asserted" (AssertionError)
    transformers,     \* the transformers collected for the dimension, in order
    orig_point,       \* a point handed to the TransformedDimension
    images,           \* what transform and reverse made of it, one after the other
    candidate,        \* a point of the transformed space asked for containment
    contained         \* "unasked", the answer "true" or "false", or the exception raised

VARIABLES
    seed,             \* the seed two schedulers are constructed with
    rng,              \* scheduler -> the state of the generator it owns (self.rng)
    np_random,        \* scheduler -> the state of numpy's global generator in its process
    teams             \* scheduler -> the teams its get_candidates call drew

budget_vars == <<budget_args, budget_pc, budgets_eves>>

space_vars == <<dimension, requirements, space_pc, transformers, orig_point, images,
                candidate, contained>>

seeded_vars == <<seed, rng, np_random, teams>>

eves_vars == <<nums_population, budgets, population, performance, hurdles>>

call_vars == <<pc, rung_id, population_range, red_team, blue_team, winner_list,
               loser_list, hurdles_acc, idx, points, nums_all_equal, warnings,
               returned, calls>>

\* a population of at most two is followed for one call more
CallLimit == IF nums_population <= 2 THEN MaxCalls + 1 ELSE MaxCalls

\* EvolutionES.nums_comp_pairs
nums_comp_pairs == nums_population \div 2

\* the space's fidelity dimension: Hyperband's min_resources, max_resources and
\* reduction_factor are its low, high and base
Fidelity == [low |-> 1, high |-> 2, base |-> 1]

\* the values a result of a rung holds for dimension j
ParamValues(j) == IF DimType(j) = "integer" THEN {Scale} ELSE {0, 1, Scale}

\* the floats a mutation function writes
MutateValues == {0, 1}

\* the objective values reported for trials
Objectives == {1, NaN}

\* the slots of the population
population_index == 0..(nums_population - 1)

\* Bracket.has_rung_filled
has_rung_filled(r) == Len(rungs[r + 1].results) >= rungs[r + 1].n_trials

\* a point of the space with the given fidelity and the non-fidelity values of v
MakePoint(fidelity, v) ==
    [k \in 1..Len(Space) |-> IF k - 1 = fidelity_index THEN fidelity ELSE v[k - 1]]

\* Bracket.register: the results mapping is keyed by the non-fidelity values of the
\* point; a new key is appended, a known key keeps its place
Register(results, objective, point) ==
    LET same == {k \in 1..Len(results) :
                    \A j \in search_space_remove_fidelity :
                        results[k].point[j + 1] = point[j + 1]}
    IN  IF same = {}
        THEN Append(results, [objective |-> objective, point |-> point])
        ELSE [results EXCEPT ![CHOOSE k \in same : TRUE] =
                                [objective |-> objective, point |-> point]]

\* lines 182-185: the rung's first population_range results overwrite the slots
LoadPopulation(pop, results, range) ==
    [j \in search_space_remove_fidelity |->
        [i \in DOMAIN pop[j] |-> IF i < range THEN results[i + 1].point[j + 1] ELSE pop[j][i]]]

\* a load that goes on past the results, with the last of them
LoadPerformanceOn(perf, results, range) ==
    [i \in DOMAIN perf |-> IF i < range THEN results[i + 1].objective
                           ELSE IF range > 0 THEN results[range].objective ELSE perf[i]]

LoadPerformance(perf, results, range) ==
    [i \in DOMAIN perf |-> IF i < range THEN results[i + 1].objective ELSE perf[i]]

\* np.random.choice(a, size, replace=False): the possible draws, in drawing order
Choice(a, size) ==
    {t \in [1..size -> a] : \A x, y \in 1..size : x # y => t[x] # t[y]}

\* the elements of a list
Range(t) == {t[k] : k \in DOMAIN t}

\* lines 197-199: the winner of pair i
Winner(perf, red, blue, i) ==
    IF FloatLess(perf[red[i + 1]], perf[blue[i + 1]]) THEN red[i + 1] ELSE blue[i + 1]

\* lines 200-202: the loser of pair i
Loser(perf, red, blue, i) ==
    IF FloatGeq(perf[red[i + 1]], perf[blue[i + 1]]) THEN red[i + 1] ELSE blue[i + 1]

\* EvolutionES.nums_mutate_gene, with mutate_ratio = 0.3
nums_mutate_gene ==
    LET genes == ((Len(Space) - 1) * 3) \div 10
    IN  IF genes > 0 THEN genes ELSE 1

\* the mutation function (mutate_func), called by _mutate: it writes the floats w
\* into the slots of loser_id for the dimensions in genes
Mutate(pop, winner_id, loser_id, genes, w) ==
    [j \in search_space_remove_fidelity |->
        IF j \in genes THEN [pop[j] EXCEPT ![loser_id] = w[j]] ELSE pop[j]]

\* what a mutation may do to the population: nums_mutate_gene dimensions are
\* drawn and the loser's slots for them written
Mutations(pop, winner_id, loser_id) ==
    {Mutate(pop, winner_id, loser_id, genes, w) :
        genes \in {g \in SUBSET search_space_remove_fidelity : Cardinality(g) = nums_mutate_gene},
        w \in [search_space_remove_fidelity -> MutateValues]}

\* BuildPoint without lines 219-220: the fidelity slot keeps the 0 of line 216
BuildPointNoFidelity(pop, results, i) ==
    [k \in 1..Len(Space) |->
        IF k - 1 = fidelity_index THEN 0
        ELSE IF DimType(k - 1) \in {"integer", "categorical"}
             THEN IntCast(pop[k - 1][i])
             ELSE pop[k - 1][i]]

\* lines 216-227: the point built for entry i
BuildPoint(pop, results, i) ==
    [k \in 1..Len(Space) |->
        IF k - 1 = fidelity_index THEN results[i + 1].point[fidelity_index + 1]
        ELSE IF DimType(k - 1) \in {"integer", "categorical"}
             THEN IntCast(pop[k - 1][i])
             ELSE pop[k - 1][i]]

\* points.index(point)
IndexOf(pts, point) == (CHOOSE k \in 1..Len(pts) :
                            pts[k] = point /\ \A m \in 1..(k - 1) : pts[m] # point) - 1

\* EvolutionES.__init__ for a population of n, the bracket's rungs empty
InitEves(n) ==
    /\ nums_population = n
    /\ budgets = compute_budgets(Fidelity.low, Fidelity.high, Fidelity.base,
                                 n, n \div 2)[1]
    /\ rungs = [r \in 1..Len(budgets) |-> [n_trials |-> budgets[r][1], results |-> << >>]]
    /\ population = [j \in search_space_remove_fidelity |-> [i \in 0..(n - 1) |-> -Scale]]
    /\ performance = [i \in 0..(n - 1) |-> PosInf]
    /\ hurdles = << >>

\* no get_candidates call is running
NoCall ==
    /\ pc = "idle"
    /\ rung_id = 0
    /\ population_range = 0
    /\ red_team = << >>
    /\ blue_team = << >>
    /\ winner_list = << >>
    /\ loser_list = << >>
    /\ hurdles_acc = 0
    /\ idx = 0
    /\ points = << >>
    /\ nums_all_equal = 0
    /\ warnings = 0
    /\ returned = << >>

\* a scheduler of any population size, nothing observed and nothing called yet
EvesInit ==
    /\ \E n \in 1..MaxPopulation : InitEves(n)
    /\ NoCall
    /\ calls = 0

\* the rung-bookkeeping layer records the result of a trial evaluated at rung r
Observe(r, objective, v) ==
    /\ UNCHANGED <<budget_vars, space_vars, seeded_vars>>
    /\ pc = "idle"
    /\ calls < CallLimit
    /\ LET point == MakePoint(budgets[r + 1][2], v)
           after == Register(rungs[r + 1].results, objective, point)
       IN  /\ Len(after) <= MaxResults
           /\ rungs' = [rungs EXCEPT ![r + 1].results = after]
    /\ UNCHANGED <<eves_vars, call_vars>>

\* the same for the last rung, which get_candidates only counts (has_rung_filled):
\* its k-th result is a trial of objective 1 whose real parameter is k
ObserveLast ==
    /\ UNCHANGED <<budget_vars, space_vars, seeded_vars>>
    /\ pc = "idle"
    /\ calls < CallLimit
    /\ LET r == Len(rungs) - 1
           k == Len(rungs[r + 1].results) + 1
           point == MakePoint(budgets[r + 1][2], [j \in search_space_remove_fidelity |->
                                IF DimType(j) = "real" THEN k * Scale ELSE 0])
       IN  /\ k <= MaxResults
           /\ rungs' = [rungs EXCEPT ![r + 1].results = Register(@, 1, point)]
    /\ UNCHANGED <<eves_vars, call_vars>>

\* an early return that comes after the load of lines 182-185
GetCandidatesFilledLate(r) ==
    /\ UNCHANGED <<budget_vars, space_vars, seeded_vars>>
    /\ pc = "idle"
    /\ calls < CallLimit
    /\ has_rung_filled(r + 1)
    /\ LET results == rungs[r + 1].results
           range == IF Len(results) > nums_population THEN nums_population ELSE Len(results)
       IN  /\ population' = LoadPopulation(population, results, range)
           /\ performance' = LoadPerformance(performance, results, range)
    /\ pc' = "returned"
    /\ rung_id' = r
    /\ returned' = << >>
    /\ calls' = calls + 1
    /\ UNCHANGED <<nums_population, budgets, hurdles, rungs, population_range, red_team,
                   blue_team, winner_list, loser_list, hurdles_acc, idx, points,
                   nums_all_equal, warnings>>

\* get_candidates(r), lines 173-174: the next rung is filled
GetCandidatesFilled(r) ==
    /\ UNCHANGED <<budget_vars, space_vars, seeded_vars>>
    /\ pc = "idle"
    /\ calls < CallLimit
    /\ has_rung_filled(r + 1)
    /\ pc' = "returned"
    /\ rung_id' = r
    /\ returned' = << >>
    /\ calls' = calls + 1
    /\ UNCHANGED <<eves_vars, rungs, population_range, red_team, blue_team, winner_list,
                   loser_list, hurdles_acc, idx, points, nums_all_equal, warnings>>

\* get_candidates(r), lines 176-195: load the rung, draw the teams
GetCandidatesSelect(r) ==
    /\ UNCHANGED <<budget_vars, space_vars, seeded_vars>>
    /\ pc = "idle"
    /\ calls < CallLimit
    /\ ~has_rung_filled(r + 1)
    /\ LET results == rungs[r + 1].results
           range == IF Len(results) > nums_population THEN nums_population ELSE Len(results)
       IN  /\ population_range' = range
           /\ population' = LoadPopulation(population, results, range)
           /\ performance' = LoadPerformance(performance, results, range)
    /\ \E red \in Choice(population_index, nums_comp_pairs) :
         \E blue \in Choice(population_index \ Range(red), nums_comp_pairs) :
            /\ red_team' = red
            /\ blue_team' = blue
    /\ pc' = "tournament"
    /\ rung_id' = r
    /\ winner_list' = << >>
    /\ loser_list' = << >>
    /\ hurdles_acc' = 0
    /\ idx' = 0
    /\ calls' = calls + 1
    /\ UNCHANGED <<nums_population, budgets, rungs, hurdles, points, nums_all_equal,
                   warnings, returned>>

\* lines 196-207: one pair of the tournament
TournamentPair ==
    /\ UNCHANGED <<budget_vars, space_vars, seeded_vars>>
    /\ pc = "tournament"
    /\ idx < Len(red_team)
    /\ LET winner == Winner(performance, red_team, blue_team, idx)
           loser == Loser(performance, red_team, blue_team, idx)
       IN  /\ winner_list' = Append(winner_list, winner)
           /\ loser_list' = Append(loser_list, loser)
           /\ hurdles_acc' = FloatAdd(hurdles_acc, performance[winner])
           /\ population' \in Mutations(population, winner, loser)
    /\ idx' = idx + 1
    /\ UNCHANGED <<nums_population, budgets, rungs, performance, hurdles, pc, rung_id,
                   population_range, red_team, blue_team, points, nums_all_equal,
                   warnings, returned, calls>>

\* a round that sets the hurdle history instead of appending to it
TournamentEndSets ==
    /\ UNCHANGED <<budget_vars, space_vars, seeded_vars>>
    /\ pc = "tournament"
    /\ idx = Len(red_team)
    /\ IF Len(red_team) = 0
       THEN /\ pc' = "raised"
            /\ UNCHANGED hurdles
       ELSE /\ pc' = "build"
            /\ hurdles' = <<<<hurdles_acc, Len(red_team)>>>>
    /\ red_team' = << >>
    /\ blue_team' = << >>
    /\ winner_list' = << >>
    /\ loser_list' = << >>
    /\ hurdles_acc' = 0
    /\ idx' = 0
    /\ points' = << >>
    /\ nums_all_equal' = 0
    /\ warnings' = 0
    /\ UNCHANGED <<nums_population, budgets, rungs, population, performance, rung_id,
                   population_range, returned, calls>>

\* lines 209-214: the hurdle of the round; the division raises ZeroDivisionError
\* when there is no pair.  The teams and the winner and loser lists are not read
\* after line 210: the model drops them here.
TournamentEnd ==
    /\ UNCHANGED <<budget_vars, space_vars, seeded_vars>>
    /\ pc = "tournament"
    /\ idx = Len(red_team)
    /\ IF Len(red_team) = 0
       THEN /\ pc' = "raised"
            /\ UNCHANGED hurdles
       ELSE /\ pc' = "build"
            /\ hurdles' = Append(hurdles, <<hurdles_acc, Len(red_team)>>)
    /\ red_team' = << >>
    /\ blue_team' = << >>
    /\ winner_list' = << >>
    /\ loser_list' = << >>
    /\ hurdles_acc' = 0
    /\ idx' = 0
    /\ points' = << >>
    /\ nums_all_equal' = 0
    /\ warnings' = 0
    /\ UNCHANGED <<nums_population, budgets, rungs, population, performance, rung_id,
                   population_range, returned, calls>>

\* a retry that calls _mutate(i, points.index(point)): the entry already emitted
\* is the one mutated
BuildRetrySwapped ==
    /\ UNCHANGED <<budget_vars, space_vars, seeded_vars>>
    /\ pc = "build"
    /\ idx < population_range
    /\ nums_all_equal < MaxEqual
    /\ LET point == BuildPoint(population, rungs[rung_id + 1].results, idx)
       IN  /\ point \in Range(points)
           /\ population' \in Mutations(population, idx, IndexOf(points, point))
    /\ nums_all_equal' = nums_all_equal + 1
    /\ warnings' = IF nums_all_equal + 1 > 10 THEN warnings + 1 ELSE warnings
    /\ UNCHANGED <<nums_population, budgets, rungs, performance, hurdles, pc, rung_id,
                   population_range, red_team, blue_team, winner_list, loser_list,
                   hurdles_acc, idx, points, returned, calls>>

\* lines 218-232, 235-237: the point built for entry idx is already in points
BuildRetry ==
    /\ UNCHANGED <<budget_vars, space_vars, seeded_vars>>
    /\ pc = "build"
    /\ idx < population_range
    /\ nums_all_equal < MaxEqual
    /\ LET point == BuildPoint(population, rungs[rung_id + 1].results, idx)
       IN  /\ point \in Range(points)
           /\ population' \in Mutations(population, IndexOf(points, point), idx)
    /\ nums_all_equal' = nums_all_equal + 1
    /\ warnings' = IF nums_all_equal + 1 > 10 THEN warnings + 1 ELSE warnings
    /\ UNCHANGED <<nums_population, budgets, rungs, performance, hurdles, pc, rung_id,
                   population_range, red_team, blue_team, winner_list, loser_list,
                   hurdles_acc, idx, points, returned, calls>>

\* lines 218-229, 233-234, 239: the point built for entry idx is new
BuildAppend ==
    /\ UNCHANGED <<budget_vars, space_vars, seeded_vars>>
    /\ pc = "build"
    /\ idx < population_range
    /\ LET point == BuildPoint(population, rungs[rung_id + 1].results, idx)
       IN  /\ point \notin Range(points)
           /\ points' = Append(points, point)
    /\ idx' = idx + 1
    /\ nums_all_equal' = 0
    /\ UNCHANGED <<eves_vars, rungs, pc, rung_id, population_range, red_team, blue_team,
                   winner_list, loser_list, hurdles_acc, warnings, returned, calls>>

\* line 243
BuildEnd ==
    /\ UNCHANGED <<budget_vars, space_vars, seeded_vars>>
    /\ pc = "build"
    /\ idx = population_range
    /\ pc' = "returned"
    /\ returned' = points
    /\ UNCHANGED <<eves_vars, rungs, rung_id, population_range, red_team, blue_team,
                   winner_list, loser_list, hurdles_acc, idx, points, nums_all_equal,
                   warnings, calls>>

\* the caller has the list (or the exception); the locals are gone
Return ==
    /\ UNCHANGED <<budget_vars, space_vars, seeded_vars>>
    /\ pc \in {"returned", "raised"}
    /\ pc' = "idle"
    /\ rung_id' = 0
    /\ population_range' = 0
    /\ red_team' = << >>
    /\ blue_team' = << >>
    /\ winner_list' = << >>
    /\ loser_list' = << >>
    /\ hurdles_acc' = 0
    /\ idx' = 0
    /\ points' = << >>
    /\ nums_all_equal' = 0
    /\ warnings' = 0
    /\ returned' = << >>
    /\ UNCHANGED <<eves_vars, rungs, calls>>

\* the rungs get_candidates may be called for
CallableRungs == 0..(Len(rungs) - 2)

(***************************************************************************)
(* Transformers (orion/core/worker/transformer.py)                         *)
(*                                                                         *)
(* A value is [k |-> its kind, v |-> its numbers]: a category "cat", the   *)
(* 1-d arrays "cats", "ints" and "floats" (a float k / Scale is held as    *)
(* k), or an exception raised, named by k.  The scalars "int" (an int64)   *)
(* and "float" (a float64) hold <<lo, hi>> for the number hi * 2^53 + lo,  *)
(* hi in {-1, 0, 1} and lo small and of the sign of hi: a float64 holds    *)
(* every integer up to 2^53 in magnitude and, from there to 2^54, the even *)
(* ones only.                                                              *)
(***************************************************************************)
Cat(c) == [k |-> "cat", v |-> <<c>>]

Num(kind, lo, hi) == [k |-> kind, v |-> <<lo, hi>>]

IntV(n) == Num("int", n, 0)

FloatV(x) == Num("float", x, 0)

\* the scalar is below 2^53 in magnitude
Small(p) == p.v[2] = 0

\* the integer at distance a above 2^53 (0 <= a < 2^53) as a float64 holds it:
\* the nearest even one, and of two nearest the one with the even mantissa
NearestEven(a) ==
    IF a % 2 = 0 THEN a
    ELSE IF (a + 1) % 4 = 0 THEN a + 1 ELSE a - 1

\* astype(float) of the int64 hi * 2^53 + lo
FloatOfInt(lo, hi) ==
    IF hi = 0 THEN FloatV(lo * Scale)
    ELSE Num("float", hi * NearestEven(hi * lo) * Scale, hi)

Arr(kind, t) == [k |-> kind, v |-> t]

Raised(exception) == [k |-> exception, v |-> << >>]

Exceptions == {"AssertionError", "IndexError", "KeyError", "TypeError", "ValueError"}

IsRaised(p) == p.k \in Exceptions

\* rounding toward zero where the code rounds down
FloorTowardZero(k) == IF k >= 0 THEN k \div Scale ELSE -((-k) \div Scale)

\* numpy.floor(x).astype(int) of the float k / Scale
Floor(k) == k \div Scale

\* a transformer: its class, the categories of an Enumerate, the bound of a
\* OneHotEncode, the domain type of an Identity, and whether Reverse wraps it
Transformer(name, categories, num_cats, type, wrapped) ==
    [name |-> name, categories |-> categories, num_cats |-> num_cats,
     type |-> type, reverse |-> wrapped]

Identity(domain_type) == Transformer("Identity", << >>, 0, domain_type, FALSE)

Quantize == Transformer("Quantize", << >>, 0, "None", FALSE)

Enumerate(categories) == Transformer("Enumerate", categories, 0, "None", FALSE)

OneHotEncode(bound) == Transformer("OneHotEncode", << >>, bound, "None", FALSE)

\* Reverse(transformer); its constructor asserts the transformer is no OneHotEncode
Reverse(t) == [t EXCEPT !.reverse = ~t.reverse]

\* the class attribute domain_type
ClassDomainType(t) ==
    CASE t.name = "Identity" -> t.type
      [] t.name = "Quantize" -> "real"
      [] t.name = "Enumerate" -> "categorical"
      [] t.name = "OneHotEncode" -> "integer"

\* the class attribute target_type
ClassTargetType(t) ==
    CASE t.name = "Identity" -> t.type
      [] t.name = "Quantize" -> "integer"
      [] t.name = "Enumerate" -> "integer"
      [] t.name = "OneHotEncode" -> "real"

\* domain_type and target_type; Reverse swaps them
DomainType(t) == IF t.reverse THEN ClassTargetType(t) ELSE ClassDomainType(t)

TargetType(t) == IF t.reverse THEN ClassDomainType(t) ELSE ClassTargetType(t)

\* Quantize.transform
QuantizeTransform(p) ==
    CASE p.k = "float" -> Num("int", Floor(p.v[1]), p.v[2])
      [] p.k = "int" -> Num("int", Floor(FloatOfInt(p.v[1], p.v[2]).v[1]), p.v[2])
      [] p.k = "floats" -> Arr("ints", [i \in 1..Len(p.v) |-> Floor(p.v[i])])
      [] p.k = "ints" -> p
      [] OTHER -> Raised("TypeError")

\* Quantize.reverse
QuantizeReverse(p) ==
    CASE p.k = "int" -> FloatOfInt(p.v[1], p.v[2])
      [] p.k = "ints" -> Arr("floats", [i \in 1..Len(p.v) |-> p.v[i] * Scale])
      [] p.k \in {"float", "floats"} -> p
      [] OTHER -> Raised("ValueError")

\* map_dict[c] of Enumerate.__init__: of the indices of c, the last
MapDict(categories, c) ==
    (CHOOSE i \in 1..Len(categories) :
        categories[i] = c /\ \A m \in (i + 1)..Len(categories) : categories[m] # c) - 1

\* Enumerate.transform
EnumerateTransform(t, p) ==
    IF p.k = "cat" /\ \E i \in 1..Len(t.categories) : t.categories[i] = p.v[1]
    THEN IntV(MapDict(t.categories, p.v[1]))
    ELSE Raised("KeyError")

\* categories[x] for the integer x, negative indices counting from the end
CategoryAt(categories, x) == categories[(IF x < 0 THEN x + Len(categories) ELSE x) + 1]

IndexInRange(categories, x) == -Len(categories) <= x /\ x < Len(categories)

\* Enumerate.reverse
EnumerateReverse(t, p) ==
    CASE p.k = "int" ->
            IF Small(p) /\ IndexInRange(t.categories, p.v[1])
            THEN Cat(CategoryAt(t.categories, p.v[1]))
            ELSE Raised("IndexError")
      [] p.k = "ints" ->
            IF \A i \in 1..Len(p.v) : IndexInRange(t.categories, p.v[i])
            THEN Arr("cats", [i \in 1..Len(p.v) |-> CategoryAt(t.categories, p.v[i])])
            ELSE Raised("IndexError")
      [] OTHER -> Raised("TypeError")

\* OneHotEncode.transform of a scalar
OneHotTransform(t, p) ==
    CASE p.k = "int" ->
            IF ~(Small(p) /\ p.v[1] < t.num_cats /\ p.v[1] >= 0)
            THEN Raised("AssertionError")
            ELSE IF t.num_cats <= 2 THEN FloatV(p.v[1] * Scale)
            ELSE Arr("floats", [i \in 1..t.num_cats |-> IF i - 1 = p.v[1] THEN Scale ELSE 0])
      [] p.k = "float" ->
            IF ~(Small(p) /\ p.v[1] < t.num_cats * Scale /\ p.v[1] >= 0
                          /\ p.v[1] % Scale = 0)
            THEN Raised("AssertionError")
            ELSE IF t.num_cats <= 2 THEN p
            ELSE Raised("IndexError")
      [] OTHER -> Raised("TypeError")

\* argmax: the first index of the greatest element
ArgMax(t) == (CHOOSE i \in 1..Len(t) :
                 /\ \A m \in 1..Len(t) : t[m] <= t[i]
                 /\ \A m \in 1..(i - 1) : t[m] < t[i]) - 1

\* x > 0.5 for the element x of a value of kind k
AboveHalf(k, x) == IF k \in {"float", "floats"} THEN 2 * x > Scale ELSE 2 * x > 1

\* OneHotEncode.reverse
OneHotReverse(t, p) ==
    IF t.num_cats = 2
    THEN CASE p.k \in {"int", "float"} ->
                IntV(IF p.v[2] > 0 \/ (Small(p) /\ AboveHalf(p.k, p.v[1])) THEN 1 ELSE 0)
           [] p.k \in {"ints", "floats"} ->
                Arr("ints", [i \in 1..Len(p.v) |-> IF AboveHalf(p.k, p.v[i]) THEN 1 ELSE 0])
           [] OTHER -> Raised("TypeError")
    ELSE IF t.num_cats = 1
    THEN CASE p.k \in {"int", "float", "cat"} -> IntV(0)
           [] OTHER -> Arr("ints", [i \in 1..Len(p.v) |-> 0])
    ELSE CASE p.k \in {"int", "float", "cat"} -> Raised("IndexError")
           [] p.k \in {"ints", "floats"} ->
                IF Len(p.v) # t.num_cats THEN Raised("AssertionError")
                ELSE IntV(ArgMax(p.v))
           [] OTHER -> Raised("TypeError")

\* the transform method of the class of t
ClassTransform(t, p) ==
    CASE t.name = "Identity" -> p
      [] t.name = "Quantize" -> QuantizeTransform(p)
      [] t.name = "Enumerate" -> EnumerateTransform(t, p)
      [] t.name = "OneHotEncode" -> OneHotTransform(t, p)

\* the reverse method of the class of t
ClassReverse(t, p) ==
    CASE t.name = "Identity" -> p
      [] t.name = "Quantize" -> QuantizeReverse(p)
      [] t.name = "Enumerate" -> EnumerateReverse(t, p)
      [] t.name = "OneHotEncode" -> OneHotReverse(t, p)

\* t.transform(p) and t.reverse(p), Reverse swapping the two; an exception raised
\* on the way is what the caller gets
Transform(t, p) ==
    IF IsRaised(p) THEN p
    ELSE IF t.reverse THEN ClassReverse(t, p) ELSE ClassTransform(t, p)

ReverseOf(t, p) ==
    IF IsRaised(p) THEN p
    ELSE IF t.reverse THEN ClassTransform(t, p) ELSE ClassReverse(t, p)

\* the last transformer of a list (transformers.pop()) and the others
Last(t) == t[Len(t)]

Front(t) == SubSeq(t, 1, Len(t) - 1)

\* Compose(chain, base_domain_type).transform: the composition first, apply last
RECURSIVE ComposeTransform(_, _)
ComposeTransform(chain, p) ==
    IF chain = << >> THEN p
    ELSE Transform(Last(chain), ComposeTransform(Front(chain), p))

\* a reverse that runs the composition first and apply last, as transform does
RECURSIVE ComposeReverseForward(_, _)
ComposeReverseForward(chain, p) ==
    IF chain = << >> THEN p
    ELSE ReverseOf(Last(chain), ComposeReverseForward(Front(chain), p))

\* Compose(chain, base_domain_type).reverse: apply first, the composition last
RECURSIVE ComposeReverse(_, _)
ComposeReverse(chain, p) ==
    IF chain = << >> THEN p
    ELSE ComposeReverse(Front(chain), ReverseOf(Last(chain), p))

\* Compose(chain, base_domain_type).target_type; an empty chain is
\* Identity() applied to Identity(base_domain_type)
RECURSIVE ComposeTargetType(_, _)
ComposeTargetType(chain, base_domain_type) ==
    IF chain = << >> THEN base_domain_type
    ELSE IF TargetType(Last(chain)) # "None" THEN TargetType(Last(chain))
    ELSE ComposeTargetType(Front(chain), base_domain_type)

\* the assertions of Compose.__init__ (lines 147-148), of this Compose and of
\* the ones nested in it, all hold
RECURSIVE ComposeAsserts(_, _)
ComposeAsserts(chain, base_domain_type) ==
    \/ chain = << >>
    \/ /\ Front(chain) = << >> \/ ComposeAsserts(Front(chain), base_domain_type)
       /\ \/ DomainType(Last(chain)) = "None"
          \/ ComposeTargetType(Front(chain), base_domain_type) = DomainType(Last(chain))

\* line 68: no branch of lines 52-67 takes the requirement for the running type
RaisesTypeError(type_, requirement) ==
    ~ \/ type_ = "real" /\ requirement \in {"real", "integer", "None"}
      \/ type_ = "integer" /\ requirement \in {"real", "integer", "None"}
      \/ type_ = "categorical" /\ requirement \in {"real", "integer", "None"}

\* lines 52-67: the transformers one requirement appends for a dimension of
\* running type type_
Appended(dim, type_, requirement) ==
    CASE type_ = "real" /\ requirement = "integer" -> <<Quantize>>
      [] type_ = "integer" /\ requirement = "real" -> <<Reverse(Quantize)>>
      [] type_ = "categorical" /\ requirement = "real" ->
            <<Enumerate(dim.categories), OneHotEncode(Len(dim.categories))>>
      [] type_ = "categorical" /\ requirement = "integer" -> <<Enumerate(dim.categories)>>
      [] OTHER -> << >>

\* a running type that is never updated
RunningTypeKept(chain, type_) == type_

\* lines 70-74: the running type after a requirement
RunningType(chain, type_) ==
    IF chain = << >> THEN type_
    ELSE IF TargetType(Last(chain)) # "invariant" THEN TargetType(Last(chain)) ELSE type_

\* lines 48-74: the loop over the requirements from the k-th on: whether it
\* raises, and the transformers it collects
RECURSIVE BuildLoop(_, _, _, _, _)
BuildLoop(dim, reqs, k, chain, type_) ==
    IF k > Len(reqs) THEN [raises |-> FALSE, transformers |-> chain]
    ELSE IF RaisesTypeError(type_, reqs[k]) THEN [raises |-> TRUE, transformers |-> chain]
    ELSE LET more == chain \o Appended(dim, type_, reqs[k])
         IN  BuildLoop(dim, reqs, k + 1, more, RunningType(more, type_))

\* the transformers build_required_space collects for a dimension
BuildTransformers(dim, reqs) == BuildLoop(dim, reqs, 1, << >>, dim.type)

\* TransformedDimension.type
TransformedType(chain, dim) ==
    LET type_ == ComposeTargetType(chain, dim.type)
    IN  IF type_ # "invariant" THEN type_ ELSE dim.type

\* no transformation is followed
SpaceIdle ==
    /\ dimension = << >>
    /\ requirements = << >>
    /\ space_pc = "idle"
    /\ transformers = << >>
    /\ orig_point = << >>
    /\ images = << >>
    /\ candidate = << >>
    /\ contained = "unasked"

\* no pair of schedulers is followed
SeededIdle ==
    /\ seed = 0
    /\ rng = << >>
    /\ np_random = << >>
    /\ teams = << >>

(***************************************************************************)
(* Two schedulers constructed alike, with the same seed, each in a process *)
(* of its own: rng[s] is the generator scheduler s owns (self.rng),        *)
(* np_random[s] the generator of the numpy.random module in its process,   *)
(* teams[s] the red and blue teams of its get_candidates calls so far.     *)
(***************************************************************************)
Schedulers == {1, 2}

\* the state seed_rng(seed) puts the owned generator in
RandomState(s) == s % GeneratorStates

\* the state of a generator after one draw
Advance(g) == (5 * g + 3) % GeneratorStates

\* the list a without its i-th element
Without(a, i) == SubSeq(a, 1, i - 1) \o SubSeq(a, i + 1, Len(a))

\* choice(a, size, replace=False) by a generator in state g: the sample drawn,
\* a function of g, and the state the generator is left in
RECURSIVE RandomChoice(_, _, _)
RandomChoice(g, a, size) ==
    IF size = 0 THEN [sample |-> << >>, state |-> g]
    ELSE LET i == (g % Len(a)) + 1
             rest == RandomChoice(Advance(g), Without(a, i), size - 1)
         IN  [sample |-> <<a[i]>> \o rest.sample, state |-> rest.state]

\* list(set(population_index).difference(set(red))): the other indices, ascending
RECURSIVE DiffList(_, _)
DiffList(from, red) ==
    IF from >= nums_population THEN << >>
    ELSE (IF from \in Range(red) THEN << >> ELSE <<from>>) \o DiffList(from + 1, red)

SeededInit ==
    /\ seed \in 0..MaxSeed
    /\ rng = [s \in Schedulers |-> RandomState(seed)]
    /\ np_random \in [Schedulers -> 0..(GeneratorStates - 1)]
    /\ teams = [s \in Schedulers |-> << >>]

\* lines 187-190 of a get_candidates call of scheduler s: both teams are drawn
\* with numpy.random.choice, the generator of the module
GetCandidatesDraw(s) ==
    /\ Len(teams[s]) < MaxCalls
    /\ LET red == RandomChoice(np_random[s], DiffList(0, << >>), nums_comp_pairs)
           blue == RandomChoice(red.state, DiffList(0, red.sample), nums_comp_pairs)
       IN  /\ teams' = [teams EXCEPT ![s] = Append(@, <<red.sample, blue.sample>>)]
           /\ np_random' = [np_random EXCEPT ![s] = blue.state]
    /\ UNCHANGED <<seed, rng>>

(***************************************************************************)
(* build_required_space applied to one dimension, and a point of the       *)
(* dimension transformed and reversed by the transformer it was given      *)
(***************************************************************************)
\* the category lists of a categorical dimension
CategoryLists == UNION {[1..n -> 1..MaxCategories] : n \in 1..MaxCategories}

\* a dimension: its type and, when categorical, its categories
Dimensions ==
    {[type |-> type, categories |-> << >>] : type \in {"real", "integer", "fidelity"}}
    \cup {[type |-> "categorical", categories |-> categories] : categories \in CategoryLists}

\* the requirement lists (None is "None")
RequirementLists == UNION {[1..n -> {"real", "integer", "None"}] : n \in 0..MaxRequirements}

\* the points of a dimension
PointsOf(dim) ==
    CASE dim.type = "real" ->
            {FloatV(x) : x \in (-MaxValue * Scale)..(MaxValue * Scale)}
            \cup {Num("float", hi * a * Scale, hi) : hi \in {-1, 1},
                                                    a \in {b \in 0..MaxValue : b % 2 = 0}}
      [] dim.type = "categorical" -> {Cat(dim.categories[i]) : i \in 1..Len(dim.categories)}
      [] OTHER ->
            {IntV(n) : n \in (-MaxValue)..MaxValue}
            \cup {Num("int", hi * a, hi) : hi \in {-1, 1}, a \in 0..MaxValue}

SpaceInit ==
    /\ dimension \in Dimensions
    /\ requirements \in RequirementLists
    /\ orig_point \in PointsOf(dimension)
    /\ space_pc = "build"
    /\ transformers = << >>
    /\ images = << >>
    /\ candidate = << >>
    /\ contained = "unasked"

\* build_required_space for the dimension: the TypeError of line 68, the
\* AssertionError of Compose.__init__, or the transformed dimension
BuildRequiredSpace ==
    /\ space_pc = "build"
    /\ LET built == BuildTransformers(dimension, requirements)
       IN  IF built.raises
           THEN space_pc' = "raised" /\ UNCHANGED transformers
           ELSE IF ~ComposeAsserts(built.transformers, dimension.type)
           THEN space_pc' = "asserted" /\ UNCHANGED transformers
           ELSE space_pc' = "built" /\ transformers' = built.transformers
    /\ UNCHANGED <<dimension, requirements, orig_point, images, candidate, contained>>

\* the point the next image is computed from
LastImage == IF images = << >> THEN orig_point ELSE images[Len(images)]

\* TransformedDimension.transform
TransformPoint ==
    /\ space_pc = "built"
    /\ Len(images) < MaxImages
    /\ Len(images) % 2 = 0
    /\ images' = Append(images, ComposeTransform(transformers, LastImage))
    /\ UNCHANGED <<dimension, requirements, space_pc, transformers, orig_point,
                   candidate, contained>>

\* TransformedDimension.reverse
ReversePoint ==
    /\ space_pc = "built"
    /\ Len(images) < MaxImages
    /\ Len(images) % 2 = 1
    /\ images' = Append(images, ComposeReverse(transformers, LastImage))
    /\ UNCHANGED <<dimension, requirements, space_pc, transformers, orig_point,
                   candidate, contained>>

\* the points asked for containment: integers and floats around the valid
\* indices, and the float arrays of one 1 and of no 1, up to one wider than
\* the longest category list
Candidates ==
    {IntV(n) : n \in (-MaxCategories - 1)..(MaxCategories + 1)}
    \cup {FloatV(x) : x \in 0..Scale}
    \cup UNION {{Arr("floats", [i \in 1..w |-> IF i = hot THEN Scale ELSE 0]) : hot \in 0..w} :
                    w \in 1..(MaxCategories + 1)}

\* point in original_dimension: the dimension is a scalar one, a real or an
\* integer one has the interval [-MaxValue, MaxValue]
OriginalContains(dim, p) ==
    CASE dim.type = "categorical" ->
            p.k = "cat" /\ \E i \in 1..Len(dim.categories) : dim.categories[i] = p.v[1]
      [] dim.type = "real" ->
            /\ p.k \in {"int", "float"}
            /\ Small(p)
            /\ LET x == IF p.k = "int" THEN p.v[1] * Scale ELSE p.v[1]
               IN  -MaxValue * Scale <= x /\ x <= MaxValue * Scale
      [] OTHER ->
            /\ p.k \in {"int", "float"}
            /\ Small(p)
            /\ p.k = "float" => p.v[1] % Scale = 0
            /\ LET x == IF p.k = "int" THEN p.v[1] * Scale ELSE p.v[1]
               IN  -MaxValue * Scale <= x /\ x <= MaxValue * Scale

\* TransformedDimension.__contains__: only the AssertionError is caught
Contains(p) ==
    /\ space_pc = "built"
    /\ contained = "unasked"
    /\ images = << >>
    /\ candidate' = p
    /\ LET orig == ComposeReverse(transformers, p)
       IN  contained' = IF orig.k = "AssertionError" THEN "false"
                        ELSE IF IsRaised(orig) THEN orig.k
                        ELSE IF OriginalContains(dimension, orig) THEN "true"
                        ELSE "false"
    /\ UNCHANGED <<dimension, requirements, space_pc, transformers, orig_point, images>>

\* a dimension and its requirements, no point of the dimension being followed
ContainsInit ==
    /\ dimension \in Dimensions
    /\ requirements \in RequirementLists
    /\ orig_point = << >>
    /\ space_pc = "build"
    /\ transformers = << >>
    /\ images = << >>
    /\ candidate = << >>
    /\ contained = "unasked"

(***************************************************************************)
(* compute_budgets applied to arguments of the bounded sets                *)
(***************************************************************************)
\* no compute_budgets call is followed
BudgetIdle ==
    /\ budget_args = << >>
    /\ budget_pc = "idle"
    /\ budgets_eves = << >>

BudgetInit ==
    /\ budget_args \in [min_resources : 1..MaxResources,
                        max_resources : 0..MaxResources,
                        reduction_factor : 1..MaxReduction,
                        nums_population : 1..MaxPopulation]
    /\ budget_pc = "call"
    /\ budgets_eves = << >>

\* compute_budgets(min_resources, max_resources, reduction_factor, nums_population,
\* nums_population // 2) returns
ComputeBudgets ==
    /\ budget_pc = "call"
    /\ ~ComputeBudgetsRaises(budget_args.min_resources, budget_args.max_resources,
                             budget_args.reduction_factor)
    /\ budgets_eves' = compute_budgets(budget_args.min_resources, budget_args.max_resources,
                                       budget_args.reduction_factor,
                                       budget_args.nums_population,
                                       budget_args.nums_population \div 2)
    /\ budget_pc' = "returned"
    /\ UNCHANGED budget_args

\* compute_budgets raises
ComputeBudgetsFails ==
    /\ budget_pc = "call"
    /\ ComputeBudgetsRaises(budget_args.min_resources, budget_args.max_resources,
                            budget_args.reduction_factor)
    /\ budget_pc' = "raised"
    /\ UNCHANGED <<budget_args, budgets_eves>>

(***************************************************************************)
(* The specifications                                                      *)
(***************************************************************************)
vars == <<nums_population, budgets, rungs, population, performance, hurdles, pc, rung_id,
          population_range, red_team, blue_team, winner_list, loser_list, hurdles_acc,
          idx, points, nums_all_equal, warnings, returned, calls,
          budget_args, budget_pc, budgets_eves,
          dimension, requirements, space_pc, transformers, orig_point, images,
          candidate, contained,
          seed, rng, np_random, teams>>

\* the scheduler: results are observed and get_candidates is called
Init ==
    /\ EvesInit
    /\ BudgetIdle
    /\ SpaceIdle
    /\ SeededIdle

Next ==
    \/ \E r \in CallableRungs, objective \in Objectives,
          v \in [search_space_remove_fidelity ->
                    UNION {ParamValues(j) : j \in search_space_remove_fidelity}] :
            /\ \A j \in search_space_remove_fidelity : v[j] \in ParamValues(j)
            /\ Observe(r, objective, v)
    \/ ObserveLast
    \/ \E r \in CallableRungs : GetCandidatesFilled(r)
    \/ \E r \in CallableRungs : GetCandidatesSelect(r)
    \/ TournamentPair
    \/ TournamentEnd
    \/ BuildRetry
    \/ BuildAppend
    \/ BuildEnd
    \/ Return

Spec == Init /\ [][Next]_vars

\* a scheduler that is constructed and never used
EvesUnused ==
    /\ InitEves(1)
    /\ NoCall
    /\ calls = 0

\* compute_budgets
BudgetSpecInit ==
    /\ BudgetInit
    /\ EvesUnused
    /\ SpaceIdle
    /\ SeededIdle

BudgetNext ==
    \/ ComputeBudgets /\ UNCHANGED <<eves_vars, rungs, call_vars, space_vars, seeded_vars>>
    \/ ComputeBudgetsFails /\ UNCHANGED <<eves_vars, rungs, call_vars, space_vars, seeded_vars>>

BudgetSpec == BudgetSpecInit /\ [][BudgetNext]_vars

\* build_required_space and the transformers
SpaceSpecInit ==
    /\ SpaceInit
    /\ EvesUnused
    /\ BudgetIdle
    /\ SeededIdle

SpaceNext ==
    \/ BuildRequiredSpace /\ UNCHANGED <<eves_vars, rungs, call_vars, budget_vars, seeded_vars>>
    \/ TransformPoint /\ UNCHANGED <<eves_vars, rungs, call_vars, budget_vars, seeded_vars>>
    \/ ReversePoint /\ UNCHANGED <<eves_vars, rungs, call_vars, budget_vars, seeded_vars>>

SpaceSpec == SpaceSpecInit /\ [][SpaceNext]_vars

\* containment in a transformed dimension
ContainsSpecInit ==
    /\ ContainsInit
    /\ EvesUnused
    /\ BudgetIdle
    /\ SeededIdle

ContainsNext ==
    \/ BuildRequiredSpace /\ UNCHANGED <<eves_vars, rungs, call_vars, budget_vars, seeded_vars>>
    \/ \E p \in Candidates :
          Contains(p) /\ UNCHANGED <<eves_vars, rungs, call_vars, budget_vars, seeded_vars>>

ContainsSpec == ContainsSpecInit /\ [][ContainsNext]_vars

\* two schedulers of the same seed
SeededSpecInit ==
    /\ SeededInit
    /\ EvesInit
    /\ BudgetIdle
    /\ SpaceIdle

SeededNext ==
    \E s \in Schedulers :
        GetCandidatesDraw(s) /\ UNCHANGED <<eves_vars, rungs, call_vars, budget_vars, space_vars>>

SeededSpec == SeededSpecInit /\ [][SeededNext]_vars

(***************************************************************************)
(* The claims                                                              *)
(***************************************************************************)
\* the pairs of the tournament so far, as sets of their members
PairMembers(k) == {winner_list[k], loser_list[k]}

\* C1: in every get_candidates call that does not return early, the red and the
\* blue team are disjoint subsets of [0, population_size), each of population_size
\* // 2 distinct indices; every pair made is the red and the blue index of one
\* position, no index is in two pairs, and at the end of the tournament there are
\* exactly population_size // 2 pairs.
C1_TeamsAndPairs ==
    pc = "tournament" =>
        /\ Range(red_team) \subseteq population_index
        /\ Range(blue_team) \subseteq population_index
        /\ Range(red_team) \cap Range(blue_team) = {}
        /\ Len(red_team) = nums_population \div 2
        /\ Len(blue_team) = nums_population \div 2
        /\ Cardinality(Range(red_team)) = nums_population \div 2
        /\ Cardinality(Range(blue_team)) = nums_population \div 2
        /\ Len(winner_list) = idx
        /\ Len(loser_list) = idx
        /\ \A k \in 1..Len(winner_list) : PairMembers(k) = {red_team[k], blue_team[k]}
        /\ \A k, m \in 1..Len(winner_list) : k # m => PairMembers(k) \cap PairMembers(m) = {}

\* the results of the rung the running call reads
CallResults == rungs[rung_id + 1].results

\* C2: the i-th vector get_candidates emits holds, at the fidelity index, the
\* fidelity value of the i-th result of the rung, while it builds the list and
\* when it returns it, whatever mutation and retries did.
C2_FidelityKept ==
    /\ pc = "build" =>
          \A k \in 1..Len(points) :
              points[k][fidelity_index + 1] = CallResults[k].point[fidelity_index + 1]
    /\ pc = "returned" =>
          \A k \in 1..Len(returned) :
              returned[k][fidelity_index + 1] = CallResults[k].point[fidelity_index + 1]

\* a call returns two vectors after a run of more than 10 retries and a mutation
\* in the tournament
C2_Witness ==
    /\ pc = "returned"
    /\ Len(returned) >= 2
    /\ warnings >= 1
    /\ \E j \in search_space_remove_fidelity, i \in 0..(population_range - 1) :
          population[j][i] # CallResults[i + 1].point[j + 1]

\* C3: the retry loop of get_candidates ends: an entry is re-mutated and rebuilt
\* at most 10 times (11, counting as line 235 does), the warning is emitted at
\* most once, and the duplicate is then accepted.
C3_RetryCapped ==
    /\ nums_all_equal <= 11
    /\ warnings <= 1

\* the returned schedule line of a compute_budgets call
ScheduleLine == budgets_eves[1]

\* C4: for reduction_factor = 1 and min_resources <= max_resources, compute_budgets
\* returns one line of max_resources - min_resources + 1 rungs, of resource levels
\* min_resources, min_resources + 1, ..., max_resources, the first count being
\* population_size and every later count 2 * pair_count.
C4_UnitReduction ==
    (budget_pc = "returned" /\ budget_args.reduction_factor = 1
        /\ budget_args.min_resources <= budget_args.max_resources) =>
        /\ Len(budgets_eves) = 1
        /\ Len(ScheduleLine) = budget_args.max_resources - budget_args.min_resources + 1
        /\ \A k \in 1..Len(ScheduleLine) :
              /\ ScheduleLine[k][2] = budget_args.min_resources + (k - 1)
              /\ ScheduleLine[k][1] = IF k = 1 THEN budget_args.nums_population
                                      ELSE 2 * (budget_args.nums_population \div 2)

\* a line of three rungs or more for an odd population
C4_Witness ==
    /\ budget_pc = "returned"
    /\ budget_args.reduction_factor = 1
    /\ budget_args.nums_population = 3
    /\ Len(budgets_eves) = 1
    /\ Len(ScheduleLine) >= 3

\* floor(log(n) / log(b)) for n >= 1, b >= 2
FloorLog(n, b) == CHOOSE k \in 0..n : b ^ k <= n /\ n < b ^ (k + 1)

\* C5: for reduction_factor > 1, with nb = floor(log(max_resources) /
\* log(reduction_factor)), compute_budgets returns one line of nb + 1 rungs whose
\* i-th resource level is floor((max_resources / reduction_factor^nb) *
\* reduction_factor^i), the first count being population_size and every later
\* count 2 * pair_count.
C5_BracketZeroLevels ==
    (budget_pc = "returned" /\ budget_args.reduction_factor > 1) =>
        LET nb == FloorLog(budget_args.max_resources, budget_args.reduction_factor)
        IN  /\ Len(budgets_eves) = 1
            /\ Len(ScheduleLine) = nb + 1
            /\ \A k \in 1..Len(ScheduleLine) :
                  /\ ScheduleLine[k][2] =
                        (budget_args.max_resources * budget_args.reduction_factor ^ (k - 1))
                            \div (budget_args.reduction_factor ^ nb)
                  /\ ScheduleLine[k][1] = IF k = 1 THEN budget_args.nums_population
                                          ELSE 2 * (budget_args.nums_population \div 2)

\* C6: compute_budgets reports a failure instead of returning a schedule whenever
\* the computed bracket count is zero or negative.
C6_FailsWithoutBrackets ==
    (budget_pc # "call" /\ budget_args.reduction_factor > 1
        /\ budget_args.max_resources >= 1
        /\ NumBrackets(budget_args.max_resources, budget_args.reduction_factor) <= 0) =>
        budget_pc = "raised"

\* C7: two schedulers constructed with the same seed and given the same calls
\* draw the same red and blue teams, whatever the state of a generator they do
\* not own
C7_SameSeedSameTeams ==
    \A k \in 1..MaxCalls :
        (Len(teams[1]) >= k /\ Len(teams[2]) >= k) => teams[1][k] = teams[2][k]

\* the transformers build_required_space gave the dimension are exactly chain
Built(chain) == space_pc = "built" /\ transformers = chain

\* C8: a categorical dimension required to be real is given Enumerate(categories)
\* followed by OneHotEncode(len(categories)); transform applies Enumerate first
\* and gives a float scalar for one or two categories and a one-hot float array
\* otherwise; reverse applies OneHotEncode.reverse first and gives the category
\* back, for one, two and more categories
C8_CategoricalRoundTrip ==
    (/\ dimension # << >>
     /\ dimension.type = "categorical"
     /\ Built(<<Enumerate(dimension.categories), OneHotEncode(Len(dimension.categories))>>))
    => /\ Len(images) >= 1 =>
            images[1] = IF Len(dimension.categories) <= 2
                        THEN FloatV(MapDict(dimension.categories, orig_point.v[1]) * Scale)
                        ELSE Arr("floats",
                                 [i \in 1..Len(dimension.categories) |->
                                    IF i - 1 = MapDict(dimension.categories, orig_point.v[1])
                                    THEN Scale ELSE 0])
       /\ Len(images) >= 2 => images[2] = orig_point

\* a category went through both transformers and back, for n categories
C8_RoundTrip(n) ==
    /\ dimension # << >>
    /\ dimension.type = "categorical"
    /\ Len(dimension.categories) = n
    /\ Built(<<Enumerate(dimension.categories), OneHotEncode(n)>>)
    /\ Len(images) >= 2
    /\ images[2] = orig_point

C8_Witness == C8_RoundTrip(1)

C8_WitnessTwo == C8_RoundTrip(2)

C8_WitnessMany ==
    /\ C8_RoundTrip(3)
    /\ \E i, m \in 1..3 : i # m /\ dimension.categories[i] = dimension.categories[m]

\* the scalars p and q in order, and at a distance below one
Leq(p, q) == p.v[2] < q.v[2] \/ (p.v[2] = q.v[2] /\ p.v[1] <= q.v[1])

WithinOne(p, q) == p.v[2] = q.v[2] /\ q.v[1] < p.v[1] + Scale

IntegerValued(p) == p.v[1] % Scale = 0

\* what C9 says of the reals: reverse(transform(x)) = x exactly when x is
\* integer-valued, it is floor(x), below x, for every other x, and
\* transform(reverse(transform(x))) = transform(x)
C9_Reals ==
    /\ (Built(<<Quantize>>) /\ Len(images) >= 2) =>
            /\ images[2] = orig_point <=> IntegerValued(orig_point)
            /\ images[2].k = "float"
            /\ IntegerValued(images[2])
            /\ Leq(images[2], orig_point)
            /\ WithinOne(images[2], orig_point)
    /\ (Built(<<Quantize>>) /\ Len(images) >= 3) => images[3] = images[1]

\* C9: Quantize: transform(reverse(n)) = n for every integer n;
\* reverse(transform(x)) = x exactly when x is integer-valued, and is floor(x),
\* below x, for every other x, the negative ones included;
\* transform(reverse(transform(x))) = transform(x)
C9_QuantizeRoundTrip ==
    /\ (Built(<<Reverse(Quantize)>>) /\ Len(images) >= 2) => images[2] = orig_point
    /\ C9_Reals

\* C9 amended: transform(reverse(n)) = n for every integer n of magnitude at most
\* 2^53; and the rest as claimed, for the reals a float64 holds up to 2^54
C9_QuantizeRoundTripExact ==
    /\ (/\ Built(<<Reverse(Quantize)>>)
        /\ Len(images) >= 2
        /\ Small(orig_point) \/ orig_point.v[1] = 0) => images[2] = orig_point
    /\ C9_Reals

\* a negative real that is no integer went through Quantize, back and through again
C9_Witness ==
    /\ Built(<<Quantize>>)
    /\ Len(images) >= 3
    /\ Small(orig_point)
    /\ orig_point.v[1] < 0
    /\ ~IntegerValued(orig_point)
    /\ images[2].v[1] < orig_point.v[1]

\* the integer -2^53 went back through Quantize and through it again
C9_WitnessExact ==
    /\ Built(<<Reverse(Quantize)>>)
    /\ Len(images) >= 2
    /\ orig_point = Num("int", 0, -1)
    /\ images[2] = orig_point

\* the last requirement of reqs that is not None, and "None" if there is none
RECURSIVE LastRequirement(_)
LastRequirement(reqs) ==
    IF reqs = << >> THEN "None"
    ELSE IF Last(reqs) # "None" THEN Last(reqs)
    ELSE LastRequirement(Front(reqs))

\* C10: for a real, integer or categorical dimension and every list of
\* requirements among real, integer and None, build_required_space succeeds,
\* each transformer's domain type being the target type of what precedes it,
\* and the type of the transformed dimension is the last requirement that is
\* not None, or the type of the dimension if all are None
C10_BuildSucceeds ==
    (space_pc # "idle" /\ space_pc # "build" /\ dimension.type # "fidelity")
    => /\ space_pc = "built"
       /\ \A i \in 1..Len(transformers) :
            DomainType(transformers[i]) =
                IF i = 1 THEN dimension.type ELSE TargetType(transformers[i - 1])
       /\ TransformedType(transformers, dimension) =
            IF LastRequirement(requirements) # "None"
            THEN LastRequirement(requirements) ELSE dimension.type

\* a categorical dimension was built for the requirements real, integer, real
C10_Witness ==
    /\ space_pc = "built"
    /\ dimension.type = "categorical"
    /\ requirements = <<"real", "integer", "real">>
    /\ Len(transformers) = 4
    /\ TransformedType(transformers, dimension) = "real"

\* the candidate breaks the contract of the reverse of the transformers: an
\* index outside the category list for Enumerate alone, a vector of a width
\* other than the number of categories, more than two, for OneHotEncode
ContractViolated ==
    \/ /\ transformers = <<Enumerate(dimension.categories)>>
       /\ candidate.k = "int"
       /\ ~(0 <= candidate.v[1] /\ candidate.v[1] < Len(dimension.categories))
    \/ /\ transformers = <<Enumerate(dimension.categories),
                           OneHotEncode(Len(dimension.categories))>>
       /\ Len(dimension.categories) > 2
       /\ candidate.k = "floats"
       /\ Len(candidate.v) # Len(dimension.categories)

\* C11: containment in a transformed dimension never raises, and a candidate
\* whose reverse transformation breaks a transformer's contract (a one-hot vector
\* of the wrong width, an index outside the category list) is not contained
C11_ContainsNeverRaises ==
    contained # "unasked" =>
        /\ contained \in {"true", "false"}
        /\ ContractViolated => contained = "false"

\* C12: a requirement that is None or the type of the dimension is a no-op for
\* a dimension of every type, fidelity included: build_required_space raises
\* nothing and gives the dimension no transformer
C12_NoOpRequirement ==
    (/\ space_pc \notin {"idle", "build"}
     /\ \A i \in 1..Len(requirements) : requirements[i] \in {"None", dimension.type})
    => space_pc = "built" /\ transformers = << >>

\* C13: in every pair made, the red member is the winner exactly when its
\* objective is strictly lower than the blue member's; otherwise (equal values
\* and two +infinity included) the blue member is the winner and the red one the
\* loser; winner and loser are distinct, and the pairs mutated are the pairs made
C13_WinnerAndLoser ==
    pc = "tournament" =>
        /\ Len(winner_list) = idx /\ Len(loser_list) = idx
        /\ \A k \in 1..Len(winner_list) :
            LET red == red_team[k]
                blue == blue_team[k]
            IN  /\ winner_list[k] = red <=> FloatLess(performance[red], performance[blue])
                /\ ~FloatLess(performance[red], performance[blue]) =>
                        winner_list[k] = blue /\ loser_list[k] = red
                /\ winner_list[k] # loser_list[k]

\* C14: a get_candidates(rung_id) call that finds rung rung_id + 1 filled returns
\* the empty list, leaves the population, the performance and the hurdle history
\* as they were, and draws no team and mutates nothing
C14_EarlyReturnFrame ==
    [][(pc = "idle" /\ pc' # "idle" /\ has_rung_filled(rung_id' + 1)) =>
            /\ pc' = "returned"
            /\ returned' = << >>
            /\ population' = population
            /\ performance' = performance
            /\ hurdles' = hurdles
            /\ red_team' = << >> /\ blue_team' = << >>
            /\ winner_list' = << >> /\ loser_list' = << >>]_vars

\* a call returned early for a rung that holds a result with an objective, the
\* performance still as constructed
C14_Witness ==
    /\ pc = "returned"
    /\ returned = << >>
    /\ has_rung_filled(rung_id + 1)
    /\ Len(CallResults) >= 1
    /\ CallResults[1].objective = 1
    /\ performance[0] = PosInf
    /\ hurdles = << >>

\* the sum of the objectives of the winners from the k-th pair on
RECURSIVE WinnerSum(_)
WinnerSum(k) ==
    IF k > Len(winner_list) THEN 0
    ELSE FloatAdd(performance[winner_list[k]], WinnerSum(k + 1))

\* C15: a get_candidates call that does not return early appends one value to the
\* hurdle history, the mean of the objectives of its pair_count winners, when its
\* tournament ends, and nothing else touches the history: the earlier entries
\* stay, and the history is as long as the number of such calls
C15_HurdlesAppendOnly ==
    [][IF pc = "tournament" /\ pc' # "tournament"
       THEN /\ Len(winner_list) = nums_comp_pairs
            /\ hurdles' = Append(hurdles, <<WinnerSum(1), nums_comp_pairs>>)
       ELSE hurdles' = hurdles]_vars

\* a second call has appended its hurdle after the first one's
C15_Witness ==
    /\ Len(hurdles) = 2
    /\ calls = 2
    /\ pc = "build"
    /\ hurdles[1][2] = nums_comp_pairs
    /\ hurdles[2][2] = nums_comp_pairs

\* the slot a step of a call assigns by mutation, if it mutates: the loser of the
\* pair, or the entry being rebuilt
Mutated(i) ==
    \/ pc = "tournament" /\ idx < Len(red_team)
                         /\ i = Loser(performance, red_team, blue_team, idx)
    \/ pc = "build" /\ i = idx

\* the slot is assigned a rung result by the step: the call loads it
Loaded(i) == pc = "idle" /\ pc' = "tournament" /\ i < population_range'

\* C16: at all times the population holds one array per dimension index other
\* than the fidelity index, each of population_size slots, and the performance
\* population_size slots; the slots start as -1 and +infinity, and a slot changes
\* only when it is assigned a rung result or a mutation
C16_PopulationShape ==
    /\ [](/\ DOMAIN population = search_space_remove_fidelity
          /\ fidelity_index \notin DOMAIN population
          /\ \A j \in search_space_remove_fidelity :
                DOMAIN population[j] = 0..(nums_population - 1)
          /\ DOMAIN performance = 0..(nums_population - 1)
          /\ (calls = 0 /\ pc = "idle") =>
                /\ \A i \in population_index : performance[i] = PosInf
                /\ \A j \in search_space_remove_fidelity, i \in population_index :
                        population[j][i] = -Scale)
    /\ [][\A i \in population_index :
            /\ performance'[i] # performance[i] => Loaded(i)
            /\ \A j \in search_space_remove_fidelity :
                    population'[j][i] # population[j][i] => Loaded(i) \/ Mutated(i)]_vars

\* a call has loaded and mutated slots, and a slot it did not touch is as constructed
C16_Witness ==
    /\ pc = "returned"
    /\ population_range >= 1
    /\ performance[0] # PosInf
    /\ \E i \in population_index :
        /\ performance[i] = PosInf
        /\ \A j \in search_space_remove_fidelity : population[j][i] = -Scale
    /\ \E i \in population_index, j \in search_space_remove_fidelity :
        /\ performance[i] = PosInf
        /\ population[j][i] # -Scale

\* C17: right after the load, when the rung holds more than population_size
\* results, the slots hold the population_size most recently recorded ones; when
\* it holds k <= population_size, the slots 0..k-1 hold them in insertion order
C17_LoadsMostRecent ==
    (pc = "tournament" /\ idx = 0) =>
        LET k == Len(CallResults)
            skipped == IF k > nums_population THEN k - nums_population ELSE 0
        IN  \A i \in 0..(population_range - 1) :
                /\ performance[i] = CallResults[skipped + i + 1].objective
                /\ \A j \in search_space_remove_fidelity :
                        population[j][i] = CallResults[skipped + i + 1].point[j + 1]

\* the value of the vector built from slot i for dimension j
SlotValue(j, i) ==
    IF DimType(j) \in {"integer", "categorical"}
    THEN IntCast(population[j][i]) ELSE population[j][i]

\* C18: a call that does not return early returns min(population_size, number
\* of results of the rung) vectors; the i-th vector, once emitted and at return,
\* holds for every dimension j but the fidelity the value of population[j][i],
\* as an integer when the dimension is integer or categorical: a retry leaves
\* the slots of the vectors already emitted alone
C18_VectorsMatchSlots ==
    /\ pc = "build" =>
        \A i \in 0..(Len(points) - 1), j \in search_space_remove_fidelity :
            points[i + 1][j + 1] = SlotValue(j, i)
    /\ (pc = "returned" /\ ~has_rung_filled(rung_id + 1)) =>
        /\ Len(returned) = IF Len(CallResults) > nums_population
                           THEN nums_population ELSE Len(CallResults)
        /\ \A i \in 0..(Len(returned) - 1), j \in search_space_remove_fidelity :
            returned[i + 1][j + 1] = SlotValue(j, i)

\* a call returns two vectors after a retry mutated the slot of the second
C18_Witness ==
    /\ pc = "returned"
    /\ ~has_rung_filled(rung_id + 1)
    /\ Len(returned) = 2
    /\ warnings >= 1
    /\ \E j \in search_space_remove_fidelity :
          population[j][1] # CallResults[2].point[j + 1]

====
